---- MODULE Spec2Model ----
(***************************************************************************)
(* Fragility models for berth structures subjected to storms               *)
(* (berth_storm_fragility.py): three logistic-regression evaluators and    *)
(* the uplift dispatcher, modelled as the Python interpreter runs them.    *)
(*                                                                         *)
(* Numbers.  The source computes in IEEE-754 doubles.  The logit is a      *)
(* polynomial with decimal coefficients of at most 8 decimals; the model   *)
(* evaluates it exactly on integer-valued inputs, as a fixed-point number  *)
(* with 8 decimals held in three limbs <<u, a, b>> of value                *)
(* u + a/10^4 + b/10^8 (0 <= a, b < 10^4, u any integer), so that no       *)
(* product leaves the range of TLC's 32-bit integers.  The logistic        *)
(* transform is modelled by what the double arithmetic of                  *)
(* exp(g)/(1+exp(g)) does: it overflows to inf/inf = nan, saturates to     *)
(* 1.0, underflows to 0.0, or yields a double strictly between 0 and 1.    *)
(***************************************************************************)
EXTENDS Integers, Sequences, FiniteSets, TLC

\* ------------------------------------------------------------- numbers

RECURSIVE P10(_)
P10(d) == IF d = 0 THEN 1 ELSE 10 * P10(d - 1)

\* the limb base, 10^4
Base == P10(4)

\* carry propagation towards the integer limb (floor semantics)
Norm(x) ==
    LET a2 == x[2] + (x[3] \div Base)
    IN  <<x[1] + (a2 \div Base), a2 % Base, x[3] % Base>>

\* the decimal literal with digits m and d decimals: Dec(-2706, 2) is -27.06
Dec(m, d) ==
    LET f == (m % P10(d)) * P10(8 - d)
    IN  <<m \div P10(d), f \div Base, f % Base>>

NumZero == <<0, 0, 0>>
NumAdd(x, y) == Norm(<<x[1] + y[1], x[2] + y[2], x[3] + y[3]>>)
NumScale(x, k) == Norm(<<x[1] * k, x[2] * k, x[3] * k>>)
NumNeg(x) == NumScale(x, -1)
NumLess(x, y) ==
    \/ x[1] < y[1]
    \/ x[1] = y[1] /\ x[2] < y[2]
    \/ x[1] = y[1] /\ x[2] = y[2] /\ x[3] < y[3]
NumLeq(x, y) == x = y \/ NumLess(x, y)

\* one term of a polynomial: coefficient (digits, decimals) times a monomial
T(m, d, mono) == NumScale(Dec(m, d), mono)

\* the sum of ts[lo .. hi], by halves
RECURSIVE SumRange(_, _, _)
SumRange(ts, lo, hi) ==
    IF lo > hi THEN NumZero
    ELSE IF lo = hi THEN ts[lo]
    ELSE LET mid == (lo + hi) \div 2
         IN  NumAdd(SumRange(ts, lo, mid), SumRange(ts, mid + 1, hi))

SumTerms(ts) == SumRange(ts, 1, Len(ts))

Sq(x) == x * x
Cube(x) == x * x * x

\* ------------------------------------------------- the logistic transform

\* exp(g) is inf for g above ln(DBL_MAX) = 709.78271289...
ExpOverflowAbove == <<709, 7827, 1289>>
\* exp(g) is 0.0 for g below ln(2^-1075) = -745.13321910...
ExpUnderflowBelow == NumNeg(<<745, 1332, 1910>>)
\* 1+exp(g) = exp(g) for exp(g) >= 2^54, i.e. g >= 54 ln 2 = 37.42994775...
SaturatedFrom == <<37, 4299, 4776>>
\* 1+exp(g) is exact, or rounds to a neighbour of exp(g), below 2^53:
\* g < 53 ln 2 = 36.73680056...; between the two the quotient is 1.0 or
\* 1 - 2^-53 according to the last bit of exp(g)
RoundingFrom == <<36, 7368, 56>>

\* pf = np.exp(g)/(1+np.exp(g)) as a double: its class, and the logit it is
\* the image of (equal logits give the bit-identical double)
Logistic(g) ==
    [ cls |-> IF NumLess(ExpOverflowAbove, g) THEN "nan"
              ELSE IF NumLeq(SaturatedFrom, g) THEN "one"
              ELSE IF NumLeq(RoundingFrom, g) THEN "edge"
              ELSE IF NumLess(g, ExpUnderflowBelow) THEN "zero"
              ELSE "open",
      logit |-> g ]

\* floor(g * log2 e), within one unit either way, for |g| < 1000
Exp2(g) == (g[1] * 14427 + (g[2] * 14427) \div Base) \div Base

\* integer bounds on log2 of a double strictly between 0 and 1:
\* exp(g)/2 < pf < exp(g) for g < 0, and 1/2 <= pf < 1 otherwise
PfLo(p) == IF p.logit[1] < 0 THEN Exp2(p.logit) - 2 ELSE -1
PfHi(p) == IF p.logit[1] < 0 THEN Exp2(p.logit) + 2 ELSE 0

\* p < q as doubles, whenever the classes and the bounds decide it
PfLess(p, q) ==
    \/ p.cls = "zero" /\ q.cls \in {"open", "edge", "one"}
    \/ p.cls = "open" /\ q.cls = "one"
    \/ p.cls = "open" /\ q.cls = "open" /\ PfHi(p) <= PfLo(q)

\* ------------------------------------------------------ the regressions

\* a local name that no assignment has bound yet
Unbound == <<>>

\* line 40 with the sign of the linear term slipped
BalomenosFullInSlip(Hmax, Zc) ==
    SumTerms(<< T(-2706, 2, 1), T(-902, 2, Hmax), T(-188, 2, Zc),
                T(18, 2, Hmax * Zc), T(-1, 0, Sq(Hmax)),
                T(4, 2, Cube(Hmax)) >>)

\* line 40
BalomenosFullIn(Hmax, Zc) ==
    SumTerms(<< T(-2706, 2, 1), T(902, 2, Hmax), T(-188, 2, Zc),
                T(18, 2, Hmax * Zc), T(-1, 0, Sq(Hmax)),
                T(4, 2, Cube(Hmax)) >>)

\* line 43
BalomenosFullOut(Hmax, Zc) ==
    SumTerms(<< T(-2689, 2, 1), T(1135, 2, Hmax), T(-250, 2, Zc),
                T(30, 2, Hmax * Zc), T(-162, 2, Sq(Hmax)),
                T(9, 2, Cube(Hmax)) >>)

\* line 46
BalomenosPartialIn(Hmax, Zc) ==
    SumTerms(<< T(-1501, 2, 1), T(612, 2, Hmax), T(-287, 2, Zc),
                T(39, 2, Hmax * Zc), T(-61, 2, Sq(Hmax)),
                T(-28, 2, Sq(Zc)), T(3, 2, Cube(Hmax)) >>)

\* line 49 with the intercept rounded to two decimals
BalomenosPartialOutSlip(Hmax, Zc) ==
    SumTerms(<< T(-2095, 2, 1), T(1327, 2, Hmax), T(-473, 2, Zc),
                T(90, 2, Hmax * Zc), T(-271, 2, Sq(Hmax)),
                T(-5, 1, Sq(Zc)), T(23, 2, Cube(Hmax)) >>)

\* line 49
BalomenosPartialOut(Hmax, Zc) ==
    SumTerms(<< T(-20945, 3, 1), T(1327, 2, Hmax), T(-473, 2, Zc),
                T(90, 2, Hmax * Zc), T(-271, 2, Sq(Hmax)),
                T(-5, 1, Sq(Zc)), T(23, 2, Cube(Hmax)) >>)

\* lines 39-49: the logit of the branch the selectors pick; no branch, no
\* assignment
BalomenosLogit(L) ==
    IF L["moment"] = "full" /\ L["comp_zone"] = "in" THEN
        BalomenosFullIn(L["Hmax"], L["Zc"])
    ELSE IF L["moment"] = "full" /\ L["comp_zone"] = "out" THEN
        BalomenosFullOut(L["Hmax"], L["Zc"])
    ELSE IF L["moment"] = "partial" /\ L["comp_zone"] = "in" THEN
        BalomenosPartialIn(L["Hmax"], L["Zc"])
    ELSE IF L["moment"] = "partial" /\ L["comp_zone"] = "out" THEN
        BalomenosPartialOut(L["Hmax"], L["Zc"])
    ELSE Unbound

\* lines 94-113
UpliftManiglioLogit(L) ==
    LET Hmax == L["Hmax"]
        Zc == L["Zc"]
        bh == L["bh"]
        bl == L["bl"]
        bw == L["bw"]
        dse == L["dse"]
        nb == L["nb"]
    IN  IF L["pos"] = "internal" THEN
            SumTerms(<< T(-14654, 3, 1), T(62338, 4, Hmax), T(-34827, 4, Zc),
                        T(-3034, 2, bh), T(26329, 4, bl), T(18639, 4, bw),
                        T(-21659, 2, dse),
                        T(-49599, 5, nb), T(62134, 5, Hmax * Zc),
                        T(-59376, 5, Sq(Hmax)),
                        T(-53821, 5, Sq(Zc)), T(13322, 3, Sq(bh)),
                        T(-12446, 5, Sq(bl)),
                        T(-64453, 6, Sq(bw)), T(-29003, 6, Sq(Hmax) * Zc),
                        T(97103, 6, Hmax * Sq(Zc)), T(21735, 6, Cube(Hmax)),
                        T(-43198, 7, Sq(Hmax) * Sq(Zc)) >>)
        ELSE IF L["pos"] = "seaward" THEN
            SumTerms(<< T(-88361, 4, 1), T(58162, 4, Hmax), T(-38618, 4, Zc),
                        T(-28851, 3, bh), T(29167, 4, bl), T(19991, 4, bw),
                        T(-20619, 2, dse), T(-14172, 4, nb),
                        T(78347, 5, Hmax * Zc),
                        T(-53459, 5, Sq(Hmax)), T(-78347, 5, Sq(Zc)),
                        T(11851, 3, Sq(bh)),
                        T(-14821, 5, Sq(bl)), T(37589, 6, Sq(bw)),
                        T(-42766, 6, Sq(Hmax) * Zc),
                        T(14262, 5, Hmax * Sq(Zc)), T(19439, 6, Cube(Hmax)),
                        T(-65198, 6, Cube(Zc)), T(-6523, 6, Sq(Hmax) * Sq(Zc)),
                        T(68831, 7, Hmax * Cube(Zc)) >>)
        ELSE Unbound

\* lines 169-173
FlexuralUniform(L) ==
    LET Hmax == L["Hmax"]
        Zc == L["Zc"]
        b1 == L["b1"]
        b2 == L["b2"]
        bh == L["bh"]
        bw == L["bw"]
        dse == L["dse"]
        nb == L["nb"]
        dp == L["dp"]
        t == L["t"]
        depth == L["depth"]
    IN
        SumTerms(<< T(73471, 4, 1), T(2791, 3, Hmax), T(-31557, 4, Zc),
                    T(40065, 5, depth), T(-18352, 4, bh), T(42456, 5, b1),
                    T(-27151, 5, b2), T(19989, 6, bw),
                    T(75947, 5, dp), T(-41419, 2, dse), T(-70704, 5, nb),
                    T(11253, 6, t), T(42697, 5, Hmax * Zc),
                    T(43476, 6, Hmax * b2),
                    T(22533, 6, Hmax * bw), T(-35697, 6, Zc * depth),
                    T(27799, 3, Zc * dse), T(3824, 5, Zc * nb),
                    T(-23764, 6, nb * depth), T(-94056, 6, b1 * bw),
                    T(14193, 3, bw * dse), T(21738, 6, bw * nb),
                    T(-38302, 5, Sq(Hmax)), T(22222, 5, Sq(Zc)),
                    T(-23178, 6, Sq(bw)), T(21518, 6, Sq(nb)),
                    T(-24721, 6, Sq(Hmax) * Zc), T(32323, 6, Hmax * Sq(Zc)),
                    T(1736, 5, Cube(Hmax)) >>)

\* lines 177-181
FlexuralPitting(L) ==
    LET Hmax == L["Hmax"]
        Zc == L["Zc"]
        b1 == L["b1"]
        b2 == L["b2"]
        bh == L["bh"]
        bw == L["bw"]
        dse == L["dse"]
        nb == L["nb"]
        t == L["t"]
        X == L["X"]
        depth == L["depth"]
    IN
        SumTerms(<< T(16653, 3, 1), T(14314, 4, Hmax), T(-26166, 4, Zc),
                    T(11173, 5, depth), T(-158342, 5, bh), T(29456, 5, b1),
                    T(-2446, 4, b2), T(29089, 5, bw),
                    T(-41649, 2, dse), T(-55746, 5, nb), T(-81204, 5, X),
                    T(99918, 6, t), T(14032, 5, Hmax * Zc),
                    T(32531, 6, Hmax * b2), T(31734, 6, Hmax * bw),
                    T(-30395, 6, Zc * depth), T(26797, 6, Zc * b2),
                    T(32384, 3, Zc * dse), T(3363, 5, Zc * nb),
                    T(-27384, 7, Zc * t), T(14083, 3, bw * dse),
                    T(24709, 6, bw * nb), T(-99845, 7, X * t),
                    T(-10253, 5, Sq(Hmax)), T(14287, 5, Sq(Zc)),
                    T(-2174, 5, Sq(bw)), T(47843, 6, Sq(X)),
                    T(38818, 8, Sq(t)),
                    T(19461, 6, Hmax * Sq(Zc)) >>)

\* lines 167-181 with the two branches exchanged
FlexuralManiglioLogitSwapped(L) ==
    IF L["corr"] = "uniform" THEN FlexuralPitting(L)
    ELSE IF L["corr"] = "pitting" THEN FlexuralUniform(L)
    ELSE Unbound

\* lines 167-181
FlexuralManiglioLogit(L) ==
    IF L["corr"] = "uniform" THEN FlexuralUniform(L)
    ELSE IF L["corr"] = "pitting" THEN FlexuralPitting(L)
    ELSE Unbound

\* --------------------------------------------------- calls and their parts

Balomenos == "pile_connection_pf_balomenos"
UpliftManiglio == "pile_connection_pf_uplift_maniglio"
FlexuralManiglio == "pile_connection_pf_flexural_maniglio"
UpliftPf == "pile_connection_uplift_pf"

EvalFns == {Balomenos, UpliftManiglio, FlexuralManiglio}

\* lines 33-34, 84-85, 152-153: the keys read from IM, in order
IMReads == <<"Hmax", "Zc">>

\* lines 36-37, 87-92, 155-165: the keys read from params, in order
ParamReads(fn) ==
    IF fn = Balomenos THEN <<"moment", "comp_zone">>
    ELSE IF fn = UpliftManiglio THEN <<"bh", "bl", "bw", "dse", "nb", "pos">>
    ELSE <<"b1", "b2", "bh", "bw", "dse", "nb", "dp", "t", "X", "depth",
           "corr">>

\* the selector keys among them
Selectors(fn) ==
    IF fn = Balomenos THEN {"moment", "comp_zone"}
    ELSE IF fn = UpliftManiglio THEN {"pos"}
    ELSE {"corr"}

\* the if/elif chain of the function
LogitOf(fn, L) ==
    IF fn = Balomenos THEN BalomenosLogit(L)
    ELSE IF fn = UpliftManiglio THEN UpliftManiglioLogit(L)
    ELSE FlexuralManiglioLogit(L)

\* d[k] for the keys in order: the first key the dict lacks raises KeyError
NoKey == "<none>"
RECURSIVE FirstMissing(_, _)
FirstMissing(d, keys) ==
    IF keys = <<>> THEN NoKey
    ELSE IF Head(keys) \notin DOMAIN d THEN Head(keys)
    ELSE FirstMissing(d, Tail(keys))

Range(seq) == {seq[i] : i \in DOMAIN seq}

\* the locals bound by subscripting d with each key
Bind(d, keys) == [k \in Range(keys) |-> d[k]]

\* as if a key were read with d.pop(k)
AfterPop(d, k) == [x \in DOMAIN d \ {k} |-> d[x]]

\* d[k] leaves the dict as it is
AfterRead(d, k) == d

RECURSIVE AfterReads(_, _)
AfterReads(d, keys) ==
    IF keys = <<>> \/ Head(keys) \notin DOMAIN d THEN d
    ELSE AfterReads(AfterRead(d, Head(keys)), Tail(keys))

\* line 187: model='maniglio' when the argument is left out
Omitted == "<omitted>"
NoArg == "<no such parameter>"
BindModel(arg) == IF arg = Omitted THEN "maniglio" ELSE arg

\* lines 196-200: the function each branch of the dispatcher calls
NoRoute == "<no branch>"
\* as if each model name were routed to the uplift function of that name
RouteByName(model) ==
    IF model = "balomenos" THEN Balomenos
    ELSE IF model = "maniglio" THEN UpliftManiglio
    ELSE NoRoute

\* as if only 'maniglio' were routed to the flexural function
RouteBalomenos(model) ==
    IF model = "balomenos" THEN Balomenos
    ELSE IF model = "maniglio" THEN FlexuralManiglio
    ELSE NoRoute

Route(model) ==
    IF model = "balomenos" THEN FlexuralManiglio
    ELSE IF model = "maniglio" THEN FlexuralManiglio
    ELSE NoRoute

\* results of a call: a returned pf, or the exception that ended it
NoPf == [cls |-> "unbound", logit |-> NumZero]
NoResult == [kind |-> "none", pf |-> NoPf, exc |-> "-", what |-> "-",
             fn |-> "-"]
Value(pf) == [kind |-> "value", pf |-> pf, exc |-> "-", what |-> "-",
              fn |-> "-"]
Raised(exc, what, fn) == [kind |-> "error", pf |-> NoPf, exc |-> exc,
                          what |-> what, fn |-> fn]

\* the name of the logit local: g at line 40, logit at lines 96 and 169
LogitName(fn) == IF fn = Balomenos THEN "g" ELSE "logit"

\* one evaluation function run on its own, start to end
EvalAlone(fn, im, p) ==
    IF FirstMissing(im, IMReads) # NoKey THEN
        Raised("KeyError", FirstMissing(im, IMReads), fn)
    ELSE IF FirstMissing(p, ParamReads(fn)) # NoKey THEN
        Raised("KeyError", FirstMissing(p, ParamReads(fn)), fn)
    ELSE LET L == Bind(im, IMReads) @@ Bind(p, ParamReads(fn))
             v == LogitOf(fn, L)
         IN  IF v = Unbound THEN Raised("UnboundLocalError", LogitName(fn), fn)
             ELSE Value(Logistic(v))

\* any of the four run on its own
CallAlone(fn, arg, im, p) ==
    IF fn = UpliftPf THEN
        IF Route(BindModel(arg)) = NoRoute THEN
            Raised("UnboundLocalError", "pf", UpliftPf)
        ELSE EvalAlone(Route(BindModel(arg)), im, p)
    ELSE EvalAlone(fn, im, p)

\* ------------------------------------------------------------- the state

NThreads == 2
Threads == 1 .. NThreads

VARIABLES
    IM,       \* the caller's IM dict, passed by reference to every call
    params,   \* the caller's params dict, passed by reference to every call
    frame,    \* per thread: the call it is in, or idle
    g,        \* per thread: the logit local (g / logit) of its running frame
    memo      \* a completed call the caller kept: <<>> or <<record>>,
              \* and whether a call with other arguments came after it

vars == <<IM, params, frame, g, memo>>

IdleFrame ==
    [ pc |-> "idle", fn |-> "-", arg |-> NoArg, model |-> "-", cur |-> "-",
      IM0 |-> <<>>, params0 |-> <<>>, loc |-> <<>>, pf |-> NoPf,
      dpf |-> NoPf, trace |-> <<>>, ret |-> NoResult ]

\* as if the logit were one module-level variable
GCellGlobal(t) == 1

\* the logit is a local of the calling thread's own frame
GCell(t) == t

\* as if the logit outlived the call that bound it
FrameEndKept(old) == old

\* a frame's locals end with it
FrameEnd(old) == Unbound

\* ---------------------------------------------------------------- inputs

SelUnknown == "unknown"
MomentVals == {"full", "partial", SelUnknown}
CompZoneVals == {"in", "out", SelUnknown}
PosVals == {"internal", "seaward", SelUnknown}
CorrVals == {"uniform", "pitting", SelUnknown}
ModelArgs == {"balomenos", "maniglio", SelUnknown, Omitted}

\* wave heights inside the documented range [0,8] and beyond it
HmaxVals == {0, 3, 4, 8, 20, 40}
ZcVals == {-2, 0, 2}
XVals == {5, 8}
DpVals == {1, 2}
DseVals == {0, 2}

IMDicts == {[Hmax |-> h, Zc |-> z] : h \in HmaxVals, z \in ZcVals}

BalomenosDicts ==
    {[moment |-> m, comp_zone |-> c] : m \in MomentVals, c \in CompZoneVals}

UpliftDicts ==
    {[bh |-> 1, bl |-> 6, bw |-> 20, dse |-> e, nb |-> 4, pos |-> p] :
        e \in DseVals, p \in PosVals}

FlexuralBase ==
    [ b1 |-> 2, b2 |-> 6, bh |-> 1, bw |-> 20, dse |-> 0, nb |-> 4, dp |-> 1,
      t |-> 50, X |-> 5, depth |-> 10, corr |-> "uniform" ]

FlexuralDicts ==
    {[FlexuralBase EXCEPT !.corr = c, !.X = x, !.dp = d, !.dse = e] :
        c \in CorrVals, x \in XVals, d \in DpVals, e \in DseVals}

Without(d, k) == [x \in DOMAIN d \ {k} |-> d[x]]

\* flexural dicts that lack the covariate their branch does not use
LackingDicts ==
    { Without(FlexuralBase, "X"),
      Without([FlexuralBase EXCEPT !.corr = "pitting"], "dp"),
      Without([FlexuralBase EXCEPT !.corr = "pitting"], "X") }

\* a dict carrying the keys of all three functions
FullLegal ==
    [ b1 |-> 2, b2 |-> 6, bh |-> 1, bl |-> 6, bw |-> 20, dse |-> 0, nb |-> 4,
      dp |-> 1, t |-> 50, X |-> 5, depth |-> 10, corr |-> "pitting",
      pos |-> "seaward", moment |-> "full", comp_zone |-> "in" ]
FullUnknown ==
    [ FullLegal EXCEPT !.corr = SelUnknown, !.pos = SelUnknown,
                       !.moment = SelUnknown, !.comp_zone = SelUnknown ]

ParamDicts ==
    BalomenosDicts \cup UpliftDicts \cup FlexuralDicts \cup LackingDicts
        \cup {FullLegal, FullUnknown}

\* the (IM, params) pairs of the sequential specification
SeqInputs == IMDicts \X ParamDicts

\* the few pairs of the specification with history
FewDicts == {FullLegal, FullUnknown, [moment |-> "partial", comp_zone |-> "out"]}
FewInputs == {[Hmax |-> 4, Zc |-> 0], [Hmax |-> 8, Zc |-> -2]} \X FewDicts

\* and of the specification with threads, with the model names it passes
ConcModelArgs == {"balomenos", Omitted}
ConcInputs == {[Hmax |-> 4, Zc |-> 0]} \X FewDicts

\* ---------------------------------------------------------------- actions

Log(f, step) == Append(f.trace, <<f.cur, step>>)

\* an exception unwinds every frame of the thread: nothing catches it
Raise(f, exc, what) ==
    [f EXCEPT !.pc = "done", !.ret = Raised(exc, what, f.cur)]

\* the caller invokes fn(IM, params[, model])
Call(t, fn, arg) ==
    /\ frame[t].pc = "idle"
    /\ frame' = [frame EXCEPT ![t] =
          [ IdleFrame EXCEPT
              !.pc = IF fn = UpliftPf THEN "dispatch" ELSE "readIM",
              !.fn = fn, !.arg = arg, !.cur = fn,
              !.model = IF fn = UpliftPf THEN BindModel(arg) ELSE "-",
              !.IM0 = IM, !.params0 = params ]]
    /\ UNCHANGED <<IM, params, g, memo>>

\* lines 196-200
Dispatch(t) ==
    /\ frame[t].pc = "dispatch"
    /\ LET f == frame[t]
           r == Route(f.model)
       IN  frame' = [frame EXCEPT ![t] =
              IF r = NoRoute
              THEN [f EXCEPT !.pc = "dispatchReturn",
                             !.trace = Log(f, "nobranch")]
              ELSE [f EXCEPT !.pc = "readIM", !.cur = r,
                             !.trace = Append(f.trace, <<r, "call">>)]]
    /\ UNCHANGED <<IM, params, g, memo>>

\* lines 33-34, 84-85, 152-153
ReadIM(t) ==
    /\ frame[t].pc = "readIM"
    /\ LET f == frame[t]
           miss == FirstMissing(IM, IMReads)
       IN  frame' = [frame EXCEPT ![t] =
              IF miss # NoKey THEN Raise(f, "KeyError", miss)
              ELSE [f EXCEPT !.pc = "readParams", !.loc = Bind(IM, IMReads),
                             !.trace = Log(f, "readIM")]]
    /\ IM' = AfterReads(IM, IMReads)
    /\ UNCHANGED <<params, g, memo>>

\* lines 36-37, 87-92, 155-165
ReadParams(t) ==
    /\ frame[t].pc = "readParams"
    /\ LET f == frame[t]
           miss == FirstMissing(params, ParamReads(f.cur))
       IN  /\ frame' = [frame EXCEPT ![t] =
                 IF miss # NoKey THEN Raise(f, "KeyError", miss)
                 ELSE [f EXCEPT !.pc = "select",
                                !.loc = f.loc @@ Bind(params, ParamReads(f.cur)),
                                !.trace = Log(f, "readParams")]]
           /\ params' = AfterReads(params, ParamReads(f.cur))
    /\ UNCHANGED <<IM, g, memo>>

\* lines 39-49, 94-113, 167-181: the branch taken assigns the logit
Select(t) ==
    /\ frame[t].pc = "select"
    /\ LET f == frame[t]
           v == LogitOf(f.cur, f.loc)
       IN  /\ g' = IF v = Unbound THEN g ELSE [g EXCEPT ![GCell(t)] = v]
           /\ frame' = [frame EXCEPT ![t] =
                 [f EXCEPT !.pc = "logistic",
                           !.trace = IF v = Unbound THEN Log(f, "select")
                                     ELSE Log(f, "select") \o <<<<f.cur, "poly">>>>]]
    /\ UNCHANGED <<IM, params, memo>>

\* lines 51, 115, 183
Transform(t) ==
    /\ frame[t].pc = "logistic"
    /\ LET f == frame[t]
       IN  frame' = [frame EXCEPT ![t] =
              IF g[GCell(t)] = Unbound
              THEN Raise(f, "UnboundLocalError", LogitName(f.cur))
              ELSE [f EXCEPT !.pc = "return", !.pf = Logistic(g[GCell(t)]),
                             !.trace = Log(f, "exp")]]
    /\ UNCHANGED <<IM, params, g, memo>>

\* lines 53, 117, 185: to the caller, or to line 197/200 of the dispatcher
Return(t) ==
    /\ frame[t].pc = "return"
    /\ LET f == frame[t]
       IN  frame' = [frame EXCEPT ![t] =
              IF f.fn = UpliftPf
              THEN [f EXCEPT !.pc = "dispatchReturn", !.dpf = f.pf,
                             !.cur = UpliftPf]
              ELSE [f EXCEPT !.pc = "done", !.ret = Value(f.pf)]]
    /\ g' = [g EXCEPT ![GCell(t)] = FrameEnd(g[GCell(t)])]
    /\ UNCHANGED <<IM, params, memo>>

\* line 202
DispatchReturn(t) ==
    /\ frame[t].pc = "dispatchReturn"
    /\ LET f == frame[t]
       IN  frame' = [frame EXCEPT ![t] =
              IF f.dpf = NoPf THEN Raise(f, "UnboundLocalError", "pf")
              ELSE [f EXCEPT !.pc = "done", !.ret = Value(f.dpf)]]
    /\ UNCHANGED <<IM, params, g, memo>>

\* the arguments of the call thread t is in
ArgsOf(f) == <<f.fn, f.arg, f.IM0, f.params0>>

\* the caller takes the result; a kept call notes that another call followed
Collect(t) ==
    /\ frame[t].pc = "done"
    /\ frame' = [frame EXCEPT ![t] = IdleFrame]
    /\ memo' = IF memo # <<>> /\ memo[1].args # ArgsOf(frame[t])
               THEN <<[memo[1] EXCEPT !.between = TRUE]>>
               ELSE memo
    /\ UNCHANGED <<IM, params, g>>

\* the caller takes the result and keeps it, with the arguments of the call
Remember(t) ==
    /\ frame[t].pc = "done"
    /\ memo = <<>>
    /\ memo' = << [ args |-> ArgsOf(frame[t]), result |-> frame[t].ret,
                    between |-> FALSE ] >>
    /\ frame' = [frame EXCEPT ![t] = IdleFrame]
    /\ UNCHANGED <<IM, params, g>>

\* between calls the caller builds other dicts
NewInputs(S) ==
    /\ \A t \in Threads : frame[t].pc = "idle"
    /\ \E i \in S : IM' = i[1] /\ params' = i[2]
    /\ UNCHANGED <<frame, g, memo>>

Calls(t, args) ==
    \/ \E fn \in EvalFns : Call(t, fn, NoArg)
    \/ \E arg \in args : Call(t, UpliftPf, arg)

Step(t) ==
    \/ Dispatch(t)
    \/ ReadIM(t)
    \/ ReadParams(t)
    \/ Select(t)
    \/ Transform(t)
    \/ Return(t)
    \/ DispatchReturn(t)

InitWith(S) ==
    /\ \E i \in S : IM = i[1] /\ params = i[2]
    /\ frame = [t \in Threads |-> IdleFrame]
    /\ g = [t \in Threads |-> Unbound]
    /\ memo = <<>>

\* one caller, many inputs
Init == InitWith(SeqInputs)
Next ==
    \/ NewInputs(SeqInputs)
    \/ Calls(1, ModelArgs)
    \/ Step(1)
    \/ Collect(1)
Spec == Init /\ [][Next]_vars

\* one caller that keeps one earlier result
InitHist == InitWith(FewInputs)
NextHist ==
    \/ NewInputs(FewInputs)
    \/ Calls(1, ModelArgs)
    \/ Step(1)
    \/ Collect(1)
    \/ Remember(1)
SpecHist == InitHist /\ [][NextHist]_vars

\* several threads calling with the same dict objects, unsynchronised
InitConc == InitWith(ConcInputs)
NextConc ==
    \/ NewInputs(ConcInputs)
    \/ \E t \in Threads : Calls(t, ConcModelArgs)
    \/ \E t \in Threads : Step(t)
    \/ \E t \in Threads : Collect(t)
SpecConc == InitConc /\ [][NextConc]_vars

\* ---------------------------------------------------------------- claims

Done(t) == frame[t].pc = "done"

\* the enumerated values of each selector, as the specification lists them
Enumerated(k) ==
    IF k = "moment" THEN {"full", "partial"}
    ELSE IF k = "comp_zone" THEN {"in", "out"}
    ELSE IF k = "pos" THEN {"internal", "seaward"}
    ELSE {"uniform", "pitting"}

\* the function whose body a call ends up in
Target(f) == IF f.fn = UpliftPf THEN FlexuralManiglio ELSE f.fn

HasAllKeys(fn, p) == Range(ParamReads(fn)) \subseteq DOMAIN p

ModelEnumerated(f) ==
    f.fn = UpliftPf => f.arg \in {"balomenos", "maniglio", Omitted}

SelectorsEnumerated(fn, p) == \A k \in Selectors(fn) : p[k] \in Enumerated(k)

\* a call whose every categorical argument is outside no enumeration
LegalCall(f) ==
    /\ ModelEnumerated(f)
    /\ HasAllKeys(Target(f), f.params0)
    /\ SelectorsEnumerated(Target(f), f.params0)

\* a call with all its fields present and a selector outside its enumeration
BadSelectorCall(f) ==
    \/ ~ModelEnumerated(f)
    \/ /\ HasAllKeys(Target(f), f.params0)
       /\ ~SelectorsEnumerated(Target(f), f.params0)

Events(f) == Range(f.trace)
DidArithmetic(f) == \E e \in Events(f) : e[2] \in {"poly", "exp"}

\* C1: a call with a selector outside its enumerated values ends in an
\* explicit InvalidSelector error, raised before any arithmetic, and returns
\* no pf.
C1_InvalidSelectorRaised ==
    \A t \in Threads :
        Done(t) /\ BadSelectorCall(frame[t]) =>
            /\ frame[t].ret.kind = "error"
            /\ frame[t].ret.exc = "InvalidSelector"
            /\ ~DidArithmetic(frame[t])

PublishedMilli(moment, comp_zone, H, Z) ==
    IF moment = "full" /\ comp_zone = "in" THEN
        -27060 + 9020 * H - 1880 * Z + 180 * H * Z - 1000 * H * H
            + 40 * H * H * H
    ELSE IF moment = "full" /\ comp_zone = "out" THEN
        -26890 + 11350 * H - 2500 * Z + 300 * H * Z - 1620 * H * H
            + 90 * H * H * H
    ELSE IF moment = "partial" /\ comp_zone = "in" THEN
        -15010 + 6120 * H - 2870 * Z + 390 * H * Z - 610 * H * H
            - 280 * Z * Z + 30 * H * H * H
    ELSE
        -20945 + 13270 * H - 4730 * Z + 900 * H * Z - 2710 * H * H
            - 500 * Z * Z + 230 * H * H * H

PublishedIntercept(moment, comp_zone) ==
    IF moment = "full" /\ comp_zone = "in" THEN Dec(-2706, 2)
    ELSE IF moment = "full" /\ comp_zone = "out" THEN Dec(-2689, 2)
    ELSE IF moment = "partial" /\ comp_zone = "in" THEN Dec(-1501, 2)
    ELSE Dec(-20945, 3)

\* C3: on each of the four legal (moment, comp_zone) branches the Balomenos
\* function computes the published polynomial as its logit and returns the
\* logistic transform of it; at Hmax=0, Zc=0 the logit is the branch
\* intercept, and at Hmax=4, Zc=0 on full/in it is -4.42.
C3_BalomenosPublishedLogit ==
    \A t \in Threads :
        LET f == frame[t]
            m == f.params0["moment"]
            c == f.params0["comp_zone"]
            H == f.IM0["Hmax"]
            Z == f.IM0["Zc"]
        IN  Done(t) /\ f.fn = Balomenos /\ LegalCall(f) =>
                /\ f.ret.kind = "value"
                /\ f.ret.pf.logit = Dec(PublishedMilli(m, c, H, Z), 3)
                /\ f.ret.pf = Logistic(Dec(PublishedMilli(m, c, H, Z), 3))
                /\ H = 0 /\ Z = 0 => f.ret.pf.logit = PublishedIntercept(m, c)
                /\ H = 4 /\ Z = 0 /\ m = "full" /\ c = "in"
                     => f.ret.pf.logit = Dec(-442, 2)

C3_Witness ==
    \E t \in Threads :
        /\ Done(t)
        /\ frame[t].fn = Balomenos
        /\ frame[t].params0 = [moment |-> "full", comp_zone |-> "in"]
        /\ frame[t].IM0 = [Hmax |-> 4, Zc |-> 0]
        /\ frame[t].ret.kind = "value"
        /\ frame[t].ret.pf.logit = Dec(-442, 2)

\* C4: with legal selectors and finite numeric inputs every function, and the
\* dispatcher, returns a pf strictly between 0 and 1: never 0, never 1,
\* never undefined.
C4_PfStrictlyBetween0And1 ==
    \A t \in Threads :
        Done(t) /\ LegalCall(frame[t]) =>
            /\ frame[t].ret.kind = "value"
            /\ frame[t].ret.pf.cls \notin {"nan", "one", "zero"}

\* C5: on the full/in branch of the Balomenos function with Zc = 0, the logit
\* and the pf at Hmax = 3 are greater than those at Hmax = 0.
C5_BalomenosRisesFrom0To3 ==
    \A t \in Threads :
        LET f == frame[t]
            at0 == EvalAlone(Balomenos, [Hmax |-> 0, Zc |-> 0], f.params0)
        IN  /\ Done(t)
            /\ f.fn = Balomenos
            /\ f.params0 = [moment |-> "full", comp_zone |-> "in"]
            /\ f.IM0 = [Hmax |-> 3, Zc |-> 0]
            => /\ f.ret.kind = "value"
               /\ at0.kind = "value"
               /\ NumLess(at0.pf.logit, f.ret.pf.logit)
               /\ PfLess(at0.pf, f.ret.pf)

C5_Witness ==
    \E t \in Threads :
        /\ Done(t)
        /\ frame[t].fn = Balomenos
        /\ frame[t].params0 = [moment |-> "full", comp_zone |-> "in"]
        /\ frame[t].IM0 = [Hmax |-> 3, Zc |-> 0]
        /\ frame[t].ret.kind = "value"
        /\ frame[t].ret.pf.cls = "open"

\* C6: two calls with identical arguments return identical output, whatever
\* calls were made before or between them.
C6_SameArgumentsSameOutput ==
    \A t \in Threads :
        Done(t) /\ memo # <<>> /\ memo[1].args = ArgsOf(frame[t]) =>
            frame[t].ret = memo[1].result

C6_Witness ==
    \E t \in Threads :
        /\ Done(t)
        /\ memo # <<>>
        /\ memo[1].between
        /\ memo[1].args = ArgsOf(frame[t])
        /\ frame[t].fn = FlexuralManiglio
        /\ frame[t].ret.kind = "error"

\* C7: calls running concurrently on several threads, under every
\* interleaving of their steps, each return what the call returns when run
\* alone.
C7_ConcurrentAsAlone ==
    \A t \in Threads :
        Done(t) =>
            frame[t].ret =
                CallAlone(frame[t].fn, frame[t].arg, frame[t].IM0,
                          frame[t].params0)

C7_Witness ==
    \E t, u \in Threads :
        /\ t # u
        /\ Done(t)
        /\ frame[t].ret.kind = "value"
        /\ frame[u].pc = "return"
        /\ frame[u].cur # Target(frame[t])

\* C8: a call leaves the IM dict and the params dict as they were passed,
\* whether it returns a pf or ends in an error, and leaves nothing behind
\* outside the call.
C8_ArgumentsUnchanged ==
    \A t \in Threads :
        Done(t) =>
            /\ IM = frame[t].IM0
            /\ params = frame[t].params0
            /\ g[t] = Unbound

C8_Witness ==
    \E t \in Threads :
        /\ Done(t)
        /\ frame[t].fn = UpliftPf
        /\ frame[t].ret.kind = "error"
        /\ frame[t].ret.exc = "UnboundLocalError"
        /\ frame[t].ret.fn = FlexuralManiglio

C10_CorrosionSelectsCovariates ==
    \A t \in Threads :
        LET f == frame[t]
            p == f.params0
        IN  Done(t) /\ f.fn = FlexuralManiglio =>
                /\ HasAllKeys(FlexuralManiglio, p) /\ p["corr"] = "uniform" =>
                     /\ f.ret.kind = "value"
                     /\ \A x \in XVals :
                          EvalAlone(FlexuralManiglio, f.IM0,
                                    [p EXCEPT !["X"] = x]) = f.ret
                /\ HasAllKeys(FlexuralManiglio, p) /\ p["corr"] = "pitting" =>
                     /\ f.ret.kind = "value"
                     /\ \A d \in DpVals :
                          EvalAlone(FlexuralManiglio, f.IM0,
                                    [p EXCEPT !["dp"] = d]) = f.ret
                /\ {"X", "dp"} \ DOMAIN p # {} =>
                     /\ f.ret.kind = "error"
                     /\ f.ret.exc = "KeyError"
                     /\ Range(ParamReads(FlexuralManiglio)) \ DOMAIN p
                            \subseteq {"X", "dp"}
                          => f.ret.what \in {"X", "dp"} \ DOMAIN p

C10_Witness ==
    \E t \in Threads :
        /\ Done(t)
        /\ frame[t].fn = FlexuralManiglio
        /\ HasAllKeys(FlexuralManiglio, frame[t].params0)
        /\ frame[t].params0["corr"] = "uniform"
        /\ frame[t].params0["X"] = 8
        /\ frame[t].ret.kind = "value"

====
